---- MODULE Spec2Model ----
(***************************************************************************)
(* Model of covid.py, the COVID-19 Global Data Tracker script: one linear  *)
(* run that loads a dataset (remote CSV, local fallback), prints an        *)
(* exploration of it, converts the dates, selects the countries of         *)
(* interest, builds the latest-observation snapshot, derives the ratio     *)
(* metrics, renders the charts and maps and prints the insights.           *)
(*                                                                         *)
(* A table (DataFrame) is a sequence of rows; a row is a record whose      *)
(* fields are the columns.  A numeric cell is a float, modelled exactly:   *)
(* a missing value (NaN), +infinity, or a reduced non-negative fraction.   *)
(* A date is a day number; every date of a dataset parses.  The columns    *)
(* the script only plots or describes (new_deaths, total_vaccinations,     *)
(* people_vaccinated, iso_code) are left out, and so are the numbers it    *)
(* only prints (the correlation coefficients, the growth rate).  A step    *)
(* that raises outside a try block ends the run: error names the           *)
(* exception and pc stays at the step.                                     *)
(***************************************************************************)
EXTENDS Integers, Sequences, FiniteSets, TLC

VARIABLES
    pc,               \* the statement block the run is about to execute
    error,            \* the uncaught exception that ended the run, or "none"
    remote,           \* outcome of pd.read_csv(url): "pending", "ok", "failed"
    local,            \* outcome of pd.read_csv(local file): "untried", "ok", "failed"
    local_file,       \* what the local file held when it was read
    df_bound,         \* whether the name df has been assigned
    df,               \* the loaded dataset
    date_dtype,       \* dtype of df['date']: "object" (strings) or "datetime64"
    filtered_df,      \* rows of the countries of interest
    latest_data,      \* the latest-observation snapshot
    top_10_cases,     \* head(10) of the first snapshot, as printed
    top_countries,    \* head(10) of the snapshot, as charted
    smooth,           \* per country, the new_cases_smooth series that was plotted
    latest_map_data,  \* rows of the latest date, for the maps
    highest,          \* <<highest_cfr, highest_vax>> rows, as printed
    out,              \* the console: tags of what was printed, in order
    stages,           \* the pipeline stages in the order they ran
    consumed,         \* tables the reporter has printed or rendered
    failed            \* rendering steps whose rendering raised

vars == <<pc, error, remote, local, local_file, df_bound, df, date_dtype,
          filtered_df, latest_data, top_10_cases, top_countries, smooth,
          latest_map_data, highest, out, stages, consumed, failed>>

----------------------------------------------------------------------------
(* Floats *)

NaN == [k |-> "nan", n |-> 0, d |-> 1]

Inf == [k |-> "inf", n |-> 1, d |-> 0]

RECURSIVE GCD(_, _)
GCD(a, b) == IF b = 0 THEN a ELSE GCD(b, a % b)

\* the fraction n/d (d > 0) in lowest terms
Frac(n, d) ==
    LET g == GCD(n, d)
    IN [k |-> "num", n |-> n \div g, d |-> d \div g]

F(i) == [k |-> "num", n |-> i, d |-> 1]

IsNaN(x) == x.k = "nan"

\* float division as the Series operator / performs it: a missing operand
\* gives NaN, 0/0 gives NaN, x/0 with x > 0 gives +inf; nothing is raised
Div(a, b) ==
    IF IsNaN(a) \/ IsNaN(b) THEN NaN
    ELSE IF b.k = "inf" THEN (IF a.k = "inf" THEN NaN ELSE F(0))
    ELSE IF a.k = "inf" THEN Inf
    ELSE IF b.n = 0 THEN (IF a.n = 0 THEN NaN ELSE Inf)
    ELSE Frac(a.n * b.d, a.d * b.n)

Mul(a, b) ==
    IF IsNaN(a) \/ IsNaN(b) THEN NaN
    ELSE IF a.k = "inf" \/ b.k = "inf"
         THEN (IF (a.k = "num" /\ a.n = 0) \/ (b.k = "num" /\ b.n = 0)
               THEN NaN ELSE Inf)
    ELSE Frac(a.n * b.n, a.d * b.d)

Add(a, b) ==
    IF IsNaN(a) \/ IsNaN(b) THEN NaN
    ELSE IF a.k = "inf" \/ b.k = "inf" THEN Inf
    ELSE Frac(a.n * b.d + b.n * a.d, a.d * b.d)

\* a > b on floats that are not NaN
Gt(a, b) ==
    IF a.k = "inf" THEN b.k # "inf"
    ELSE IF b.k = "inf" THEN FALSE
    ELSE a.n * b.d > b.n * a.d

\* (numerator / denominator) * 100, the expression of both ratio metrics
Ratio(num, den) == Mul(Div(num, den), F(100))

----------------------------------------------------------------------------
(* Tables *)

countries_of_interest ==
    {"World", "United States", "India", "Brazil", "United Kingdom",
     "South Africa", "Kenya", "Australia", "China", "Germany"}

\* the location names of the model in ascending string order, the order in
\* which groupby lists its groups
LocOrder ==
    <<"Australia", "Brazil", "China", "France", "Germany", "India", "Kenya",
      "South Africa", "United Kingdom", "United States", "World">>

Range(s) == {s[i] : i \in DOMAIN s}

RECURSIVE SelectRows(_, _)
\* t[mask]: the rows whose index is in keep, in their order
SelectRows(t, keep) ==
    IF t = <<>> THEN <<>>
    ELSE LET n == Len(t)
             front == SelectRows(SubSeq(t, 1, n - 1), keep)
         IN IF n \in keep THEN Append(front, t[n]) ELSE front

\* df[df['location'] == country]
RowsOf(t, country) == SelectRows(t, {i \in DOMAIN t : t[i].location = country})

\* df[df['location'].isin(countries_of_interest)]
IsIn(t, names) == SelectRows(t, {i \in DOMAIN t : t[i].location \in names})

Column(t, c) == [i \in DOMAIN t |-> t[i][c]]

\* t[[columns]]
Project(t, cols) == [i \in DOMAIN t |-> [c \in cols |-> t[i][c]]]

\* t.head(k)
HeadRows(t, k) == SubSeq(t, 1, IF Len(t) < k THEN Len(t) ELSE k)

RECURSIVE LastValid(_, _)
\* the last value of column c in group g that is not missing (NaN when every
\* value is missing): what GroupBy.last() returns for one column
LastValid(g, c) ==
    IF g = <<>> THEN NaN
    ELSE LET n == Len(g)
         IN IF ~IsNaN(g[n][c]) THEN g[n][c]
            ELSE LastValid(SubSeq(g, 1, n - 1), c)

\* one group's row of groupby('location').last(): column by column the last
\* value that is not missing; a date is never missing, so it is the date of
\* the group's last row in table order
LastOfGroup(g) ==
    [c \in DOMAIN g[1] |->
        IF c \in {"location", "date"} THEN g[Len(g)][c] ELSE LastValid(g, c)]

RECURSIVE GroupLastFrom(_, _)
GroupLastFrom(t, i) ==
    IF i > Len(LocOrder) THEN <<>>
    ELSE LET g == RowsOf(t, LocOrder[i])
             rest == GroupLastFrom(t, i + 1)
         IN IF g = <<>> THEN rest ELSE <<LastOfGroup(g)>> \o rest

\* t.groupby('location').last().reset_index(): one row per location, the
\* locations in ascending order
GroupLast(t) == GroupLastFrom(t, 1)

RECURSIVE InsertDesc(_, _, _)
\* r put into s (descending by c) behind every row that is not smaller
InsertDesc(s, r, c) ==
    IF s = <<>> THEN <<r>>
    ELSE LET n == Len(s)
         IN IF Gt(r[c], s[n][c])
            THEN Append(InsertDesc(SubSeq(s, 1, n - 1), r, c), s[n])
            ELSE Append(s, r)

RECURSIVE SortValid(_, _)
SortValid(t, c) ==
    IF t = <<>> THEN <<>>
    ELSE LET n == Len(t)
         IN InsertDesc(SortValid(SubSeq(t, 1, n - 1), c), t[n], c)

\* t.sort_values(c, ascending=False): descending, rows with a missing c
\* last, equal keys in their order in t (the sort's order on tables of
\* fewer than 17 rows)
SortDesc(t, c) ==
    SortValid(SelectRows(t, {i \in DOMAIN t : ~IsNaN(t[i][c])}), c)
        \o SelectRows(t, {i \in DOMAIN t : IsNaN(t[i][c])})

Window == 7

RECURSIVE SumOver(_, _, _)
\* s[lo] + ... + s[hi]
SumOver(s, lo, hi) ==
    IF lo > hi THEN F(0) ELSE Add(SumOver(s, lo, hi - 1), s[hi])

\* s.rolling(window=w).mean(): at position i the mean of the w values ending
\* at i; missing while fewer than w values precede, or when one is missing
RollingMean(s, w) ==
    [i \in DOMAIN s |->
        IF i < w THEN NaN ELSE Div(SumOver(s, i - w + 1, i), F(w))]

\* t with column c set to the series v
WithColumn(t, c, v) ==
    [i \in DOMAIN t |->
        [x \in DOMAIN t[i] \cup {c} |-> IF x = c THEN v[i] ELSE t[i][x]]]

\* the largest date of t; 0 stands for NaT, the maximum of no dates
MaxDateOf(t) ==
    IF t = <<>> THEN 0
    ELSE CHOOSE m \in {t[i].date : i \in DOMAIN t} :
             \A i \in DOMAIN t : t[i].date <= m

RECURSIVE InsertByDate(_, _)
InsertByDate(s, r) ==
    IF s = <<>> THEN <<r>>
    ELSE LET n == Len(s)
         IN IF r.date < s[n].date
            THEN Append(InsertByDate(SubSeq(s, 1, n - 1), r), s[n])
            ELSE Append(s, r)

RECURSIVE SortByDate(_)
\* t.sort_values('date'): ascending, equal dates in their order in t
SortByDate(t) ==
    IF t = <<>> THEN <<>>
    ELSE LET n == Len(t)
         IN InsertByDate(SortByDate(SubSeq(t, 1, n - 1)), t[n])

\* one observation, with the columns the script computes with (the columns
\* it only plots or describes are left out)
Obs(loc, date, tc, td, nc, pfv, pop) ==
    [location |-> loc, date |-> date, total_cases |-> tc, total_deaths |-> td,
     new_cases |-> nc, people_fully_vaccinated |-> pfv, population |-> pop]

----------------------------------------------------------------------------
(* The run *)

\* the stage s logged behind the stages that ran, once per stretch
Stage(log, s) == IF log # <<>> /\ log[Len(log)] = s THEN log ELSE Append(log, s)

Init ==
    /\ pc = "fetch"
    /\ error = "none"
    /\ remote = "pending"
    /\ local = "untried"
    /\ local_file = <<>>
    /\ df_bound = FALSE
    /\ df = <<>>
    /\ date_dtype = "object"
    /\ filtered_df = <<>>
    /\ latest_data = <<>>
    /\ top_10_cases = <<>>
    /\ top_countries = <<>>
    /\ smooth = <<>>
    /\ latest_map_data = <<>>
    /\ highest = <<>>
    /\ out = <<"banner", "1. Data Collection & Loading">>
    /\ stages = <<>>
    /\ consumed = {}
    /\ failed = {}

Running(at) == pc = at /\ error = "none"

\* line 35: df = pd.read_csv(url); the feed serves one of the datasets of D,
\* or the fetch raises
FetchRemote(D) ==
    /\ Running("fetch")
    /\ stages' = Stage(stages, "Loader")
    /\ \/ \E content \in D :
            /\ df' = content
            /\ df_bound' = TRUE
            /\ remote' = "ok"
            /\ pc' = "explore"
            /\ out' = Append(out, "Data loaded successfully")
       \/ /\ remote' = "failed"
          /\ pc' = "fallback"
          /\ out' = out \o <<"Error loading data", "Falling back to local file">>
          /\ UNCHANGED <<df, df_bound>>
    /\ UNCHANGED <<error, local, local_file, date_dtype, filtered_df, latest_data,
                   top_10_cases, top_countries, smooth, latest_map_data, highest,
                   consumed, failed>>

\* a fallback that reads the file without binding the result to df
FallbackLocal_Unbound(D) ==
    /\ Running("fallback")
    /\ stages' = Stage(stages, "Loader")
    /\ pc' = "explore"
    /\ \/ \E content \in D :
            /\ local_file' = content
            /\ local' = "ok"
            /\ out' = Append(out, "Data loaded from local file")
            /\ UNCHANGED <<df, df_bound>>
       \/ /\ local' = "failed"
          /\ out' = Append(out, "Failed to load data")
          /\ UNCHANGED <<df, df_bound, local_file>>
    /\ UNCHANGED <<error, remote, date_dtype, filtered_df, latest_data,
                   top_10_cases, top_countries, smooth, latest_map_data, highest,
                   consumed, failed>>

\* lines 40-44: the handler of a failed fetch reads the local file; when that
\* raises too, a message is printed and the run goes on with df unassigned
FallbackLocal(D) ==
    /\ Running("fallback")
    /\ stages' = Stage(stages, "Loader")
    /\ pc' = "explore"
    /\ \/ \E content \in D :
            /\ local_file' = content
            /\ df' = content
            /\ df_bound' = TRUE
            /\ local' = "ok"
            /\ out' = Append(out, "Data loaded from local file")
       \/ /\ local' = "failed"
          /\ out' = Append(out, "Failed to load data")
          /\ UNCHANGED <<df, df_bound, local_file>>
    /\ UNCHANGED <<error, remote, date_dtype, filtered_df, latest_data,
                   top_10_cases, top_countries, smooth, latest_map_data, highest,
                   consumed, failed>>

\* lines 47-77: the exploration printout; line 51 is the first read of df
\* and raises NameError when no read assigned it
Explore ==
    /\ Running("explore")
    /\ stages' = Stage(stages, "Exploration")
    /\ IF df_bound
       THEN /\ out' = out \o <<"2. Data Exploration", "shape", "first rows",
                              "columns", "summary statistics", "missing values">>
            /\ consumed' = consumed \cup {"df"}
            /\ pc' = "clean"
            /\ error' = error
       ELSE /\ out' = Append(out, "2. Data Exploration")
            /\ error' = "NameError"
            /\ UNCHANGED <<consumed, pc>>
    /\ UNCHANGED <<remote, local, local_file, df_bound, df, date_dtype, filtered_df,
                   latest_data, top_10_cases, top_countries, smooth,
                   latest_map_data, highest, failed>>

\* lines 80-85: df['date'] = pd.to_datetime(df['date'])
Clean ==
    /\ Running("clean")
    /\ stages' = Stage(stages, "Cleaner")
    /\ date_dtype' = "datetime64"
    /\ out' = out \o <<"3. Data Cleaning", "Converted date column">>
    /\ pc' = "select"
    /\ UNCHANGED <<error, remote, local, local_file, df_bound, df, filtered_df,
                   latest_data, top_10_cases, top_countries, smooth,
                   latest_map_data, highest, consumed, failed>>

\* a selection that keeps every row
Selected_All(t) == t

\* line 93: df[df['location'].isin(countries_of_interest)]
Selected(t) == IsIn(t, countries_of_interest)

\* lines 87-94: the rows of the countries of interest
Select ==
    /\ Running("select")
    /\ stages' = Stage(stages, "Selector")
    /\ filtered_df' = Selected(df)
    /\ out' = out \o <<"Selected countries", "Filtered dataset shape">>
    /\ pc' = "aggregate"
    /\ UNCHANGED <<error, remote, local, local_file, df_bound, df, date_dtype,
                   latest_data, top_10_cases, top_countries, smooth,
                   latest_map_data, highest, consumed, failed>>

\* lines 97-98 and 224-225: the last observation per location, sorted by a
\* metric, largest first
Snapshot(t, metric) == SortDesc(GroupLast(t), metric)

\* lines 96-98: the snapshot of the whole dataset, by total_cases
Aggregate ==
    /\ Running("aggregate")
    /\ stages' = Stage(stages, "Aggregator")
    /\ latest_data' = Snapshot(df, "total_cases")
    /\ pc' = "top10"
    /\ UNCHANGED <<error, remote, local, local_file, df_bound, df, date_dtype,
                   filtered_df, top_10_cases, top_countries, smooth,
                   latest_map_data, highest, out, consumed, failed>>

\* lines 101-103: the top 10 of the snapshot is printed
ReportTop10 ==
    /\ Running("top10")
    /\ stages' = Stage(stages, "Reporter")
    /\ top_10_cases' =
         HeadRows(Project(latest_data, {"location", "total_cases", "total_deaths"}), 10)
    /\ out' = Append(out, "Top 10 countries by total cases")
    /\ consumed' = consumed \cup {"latest_data"}
    /\ pc' = "derive"
    /\ UNCHANGED <<error, remote, local, local_file, df_bound, df, date_dtype,
                   filtered_df, latest_data, top_countries, smooth,
                   latest_map_data, highest, failed>>

\* line 106: (t['total_deaths'] / t['total_cases']) * 100
case_fatality_rate(t) ==
    [i \in DOMAIN t |-> Ratio(t[i].total_deaths, t[i].total_cases)]

\* lines 110 and 275: (t['people_fully_vaccinated'] / t['population']) * 100
vaccination_rate(t) ==
    [i \in DOMAIN t |-> Ratio(t[i].people_fully_vaccinated, t[i].population)]

\* lines 106 and 110: t gains case_fatality_rate, then vaccination_rate
Derived(t) ==
    LET with_cfr == WithColumn(t, "case_fatality_rate", case_fatality_rate(t))
    IN WithColumn(with_cfr, "vaccination_rate", vaccination_rate(with_cfr))

\* lines 106-111: the two ratio columns of filtered_df
DeriveRatios ==
    /\ Running("derive")
    /\ stages' = Stage(stages, "MetricDeriver")
    /\ filtered_df' = Derived(filtered_df)
    /\ out' = out \o <<"Calculated case fatality rate", "Calculated vaccination rate">>
    /\ pc' = "plot_cases"
    /\ UNCHANGED <<error, remote, local, local_file, df_bound, df, date_dtype,
                   latest_data, top_10_cases, top_countries, smooth,
                   latest_map_data, highest, consumed, failed>>

\* the line charts of one column of filtered_df per country, none of them in
\* a try block: lines 117-130, 132-145, 147-160, 189-206, 208-221
LineCharts == {"plot_cases", "plot_deaths", "plot_cfr", "plot_vacc", "plot_vaxrate"}

AfterChart(at) ==
    CASE at = "plot_cases" -> "plot_deaths"
      [] at = "plot_deaths" -> "plot_cfr"
      [] at = "plot_cfr" -> "plot_smooth"
      [] at = "plot_smooth" -> "bar_top"
      [] at = "bar_top" -> "plot_vacc"
      [] at = "plot_vacc" -> "plot_vaxrate"
      [] at = "plot_vaxrate" -> "bar_vax"
      [] at = "bar_vax" -> "corr"
      [] at = "corr" -> "map_prepare"

\* a matplotlib/seaborn rendering outside any try block: it draws, or it
\* raises and the exception ends the run
Render(ok, table) ==
    /\ failed' = IF ok THEN failed ELSE failed \cup {pc}
    /\ error' = IF ok THEN error ELSE "RenderError"
    /\ pc' = IF ok THEN AfterChart(pc) ELSE pc
    /\ consumed' = IF ok THEN consumed \cup {table} ELSE consumed

PlotLine ==
    /\ pc \in LineCharts
    /\ error = "none"
    /\ stages' = Stage(stages, "Reporter")
    /\ out' = IF pc = "plot_cases" THEN Append(out, "4. Exploratory Data Analysis")
              ELSE IF pc = "plot_vacc"
                   THEN Append(out, "5. Vaccination Progress Analysis")
              ELSE out
    /\ \E ok \in BOOLEAN : Render(ok, "filtered_df")
    /\ UNCHANGED <<remote, local, local_file, df_bound, df, date_dtype, filtered_df,
                   latest_data, top_10_cases, top_countries, smooth,
                   latest_map_data, highest>>

\* line 167, for one country: country_data is a copy of that country's rows
\* in the order they have in filtered_df, and the rolling mean runs over it
new_cases_smooth(t, country) ==
    RollingMean(Column(RowsOf(t, country), "new_cases"), Window)

\* the position of row i of t among the rows of its location
PlaceInGroup(t, i) == Cardinality({j \in 1..i : t[j].location = t[i].location})

\* the smoothing written into filtered_df itself instead of a copy
PlotSmooth_InPlace ==
    /\ Running("plot_smooth")
    /\ stages' = Stage(Stage(stages, "MetricDeriver"), "Reporter")
    /\ smooth' = [c \in countries_of_interest |-> new_cases_smooth(filtered_df, c)]
    /\ filtered_df' =
         WithColumn(filtered_df, "new_cases_smooth",
                    [i \in DOMAIN filtered_df |->
                        new_cases_smooth(filtered_df, filtered_df[i].location)
                            [PlaceInGroup(filtered_df, i)]])
    /\ \E ok \in BOOLEAN : Render(ok, "filtered_df")
    /\ UNCHANGED <<remote, local, local_file, df_bound, df, date_dtype,
                   latest_data, top_10_cases, top_countries, latest_map_data,
                   highest, out>>

\* lines 162-177: the 7-day moving average of new_cases per country, plotted
PlotSmooth ==
    /\ Running("plot_smooth")
    /\ stages' = Stage(Stage(stages, "MetricDeriver"), "Reporter")
    /\ smooth' = [c \in countries_of_interest |-> new_cases_smooth(filtered_df, c)]
    /\ \E ok \in BOOLEAN : Render(ok, "filtered_df")
    /\ UNCHANGED <<remote, local, local_file, df_bound, df, date_dtype, filtered_df,
                   latest_data, top_10_cases, top_countries, latest_map_data,
                   highest, out>>

\* lines 179-187: the bar chart of the top 10 of the snapshot
BarTopCases ==
    /\ Running("bar_top")
    /\ stages' = Stage(Stage(stages, "Aggregator"), "Reporter")
    /\ top_countries' = HeadRows(SortDesc(latest_data, "total_cases"), 10)
    /\ \E ok \in BOOLEAN : Render(ok, "latest_data")
    /\ UNCHANGED <<remote, local, local_file, df_bound, df, date_dtype, filtered_df,
                   latest_data, top_10_cases, smooth, latest_map_data, highest, out>>

\* lines 223-233: latest_data is rebuilt from filtered_df, sorted by
\* vaccination_rate and charted
BarVaxRates ==
    /\ Running("bar_vax")
    /\ stages' = Stage(Stage(stages, "Aggregator"), "Reporter")
    /\ latest_data' = Snapshot(filtered_df, "vaccination_rate")
    /\ \E ok \in BOOLEAN : Render(ok, "latest_data")
    /\ UNCHANGED <<remote, local, local_file, df_bound, df, date_dtype, filtered_df,
                   top_10_cases, top_countries, smooth, latest_map_data, highest, out>>

\* lines 235-247: the correlation matrix is printed and drawn as a heatmap
\* (the coefficients themselves are not part of the model)
Correlation ==
    /\ Running("corr")
    /\ stages' = Stage(stages, "Reporter")
    /\ out' = Append(out, "Correlation between key metrics")
    /\ \E ok \in BOOLEAN : Render(ok, "filtered_df")
    /\ UNCHANGED <<remote, local, local_file, df_bound, df, date_dtype, filtered_df,
                   latest_data, top_10_cases, top_countries, smooth,
                   latest_map_data, highest>>

\* lines 249-255: latest_date = df['date'].max() and the rows of that date
MapPrepare ==
    /\ Running("map_prepare")
    /\ stages' = Stage(stages, "Aggregator")
    /\ out' = Append(out, "6. Choropleth Map Visualization")
    /\ latest_map_data' =
         SelectRows(df, {i \in DOMAIN df : df[i].date = MaxDateOf(df)})
    /\ pc' = "map_cases"
    /\ UNCHANGED <<error, remote, local, local_file, df_bound, df, date_dtype,
                   filtered_df, latest_data, top_10_cases, top_countries, smooth,
                   highest, consumed, failed>>

\* a map step whose exception is not handled
MapRender_Unhandled(ok, next) ==
    LET drawn == ok /\ MaxDateOf(df) # 0
    IN /\ failed' = IF drawn THEN failed ELSE failed \cup {pc}
       /\ out' = out
       /\ consumed' = IF drawn THEN consumed \cup {"latest_map_data"} ELSE consumed
       /\ pc' = IF drawn THEN next ELSE pc
       /\ error' = IF drawn THEN error ELSE "RenderError"

\* a plotly rendering inside try/except Exception: the title's
\* latest_date.strftime raises on NaT (no rows), and the rendering itself
\* may raise; either way the handler prints a message and the run goes on
MapRender(ok, next) ==
    LET drawn == ok /\ MaxDateOf(df) # 0
    IN /\ failed' = IF drawn THEN failed ELSE failed \cup {pc}
       /\ out' = IF drawn THEN out ELSE out \o <<"Error creating map: " \o pc, "Note">>
       /\ consumed' = IF drawn THEN consumed \cup {"latest_map_data"} ELSE consumed
       /\ pc' = next
       /\ error' = error

\* lines 257-270: the choropleth of total_cases
MapCases ==
    /\ Running("map_cases")
    /\ stages' = Stage(stages, "Reporter")
    /\ \E ok \in BOOLEAN : MapRender(ok, "map_vax")
    /\ UNCHANGED <<remote, local, local_file, df_bound, df, date_dtype, filtered_df,
                   latest_data, top_10_cases, top_countries, smooth,
                   latest_map_data, highest>>

\* lines 272-288: vax_rate is added to latest_map_data, then the choropleth
\* of it is rendered, all inside the try block
MapVax ==
    /\ Running("map_vax")
    /\ stages' = Stage(Stage(stages, "MetricDeriver"), "Reporter")
    /\ latest_map_data' =
         WithColumn(latest_map_data, "vax_rate", vaccination_rate(latest_map_data))
    /\ \E ok \in BOOLEAN : MapRender(ok, "insights_world")
    /\ UNCHANGED <<remote, local, local_file, df_bound, df, date_dtype, filtered_df,
                   latest_data, top_10_cases, top_countries, smooth, highest>>

\* line 295: df[df['location'] == 'World'].sort_values('date')
world_data == SortByDate(RowsOf(df, "World"))

\* lines 290-308: the global statistics of the last World row; iloc[-1]
\* raises IndexError when the dataset has no World row
InsightsWorld ==
    /\ Running("insights_world")
    /\ stages' = Stage(Stage(stages, "Aggregator"), "Reporter")
    /\ IF world_data = <<>>
       THEN /\ out' = Append(out, "7. Key Insights & Findings")
            /\ error' = "IndexError"
            /\ pc' = pc
       ELSE LET latest_world == world_data[Len(world_data)]
            IN /\ out' = out \o <<"7. Key Insights & Findings", "Global statistics",
                                  IF IsNaN(latest_world.people_fully_vaccinated)
                                  THEN "Vaccination data not available"
                                  ELSE "Global Vaccination Rate">>
               /\ error' = error
               /\ pc' = "insights_highest"
    /\ UNCHANGED <<remote, local, local_file, df_bound, df, date_dtype, filtered_df,
                   latest_data, top_10_cases, top_countries, smooth,
                   latest_map_data, highest, consumed, failed>>

\* lines 311 and 315: t.sort_values(metric, ascending=False).iloc[0]
Top(t, metric) == SortDesc(t, metric)[1]

\* lines 310-316: the first row of the snapshot sorted by each ratio; iloc[0]
\* raises IndexError on an empty snapshot
InsightsHighest ==
    /\ Running("insights_highest")
    /\ stages' = Stage(Stage(stages, "Aggregator"), "Reporter")
    /\ IF latest_data = <<>>
       THEN /\ error' = "IndexError"
            /\ UNCHANGED <<highest, out, pc>>
       ELSE /\ highest' =
                 <<SortDesc(latest_data, "case_fatality_rate")[1],
                   SortDesc(latest_data, "vaccination_rate")[1]>>
            /\ out' = out \o <<"Country with highest case fatality rate",
                               "Country with highest vaccination rate">>
            /\ error' = error
            /\ pc' = "insights_growth"
    /\ UNCHANGED <<remote, local, local_file, df_bound, df, date_dtype, filtered_df,
                   latest_data, top_10_cases, top_countries, smooth,
                   latest_map_data, consumed, failed>>

\* lines 318-337: the average growth rate of the last 30 World rows (printed,
\* not kept), the fixed closing text and the last line of the report
FinalSummary ==
    /\ Running("insights_growth")
    /\ stages' = Stage(Stage(stages, "MetricDeriver"), "Reporter")
    /\ out' = out \o <<"Average global case growth rate", "Key Insights",
                       "Conclusions", "Report completed successfully!">>
    /\ pc' = "done"
    /\ UNCHANGED <<error, remote, local, local_file, df_bound, df, date_dtype,
                   filtered_df, latest_data, top_10_cases, top_countries, smooth,
                   latest_map_data, highest, consumed, failed>>

\* the script from its first statement to its last, on the datasets of D
Run(D) ==
    \/ FetchRemote(D)
    \/ FallbackLocal(D)
    \/ Explore
    \/ Clean
    \/ Select
    \/ Aggregate
    \/ ReportTop10
    \/ DeriveRatios
    \/ PlotLine
    \/ PlotSmooth
    \/ BarTopCases
    \/ BarVaxRates
    \/ Correlation
    \/ MapPrepare
    \/ MapCases
    \/ MapVax
    \/ InsightsWorld
    \/ InsightsHighest
    \/ FinalSummary

----------------------------------------------------------------------------
(* The datasets the feed or the local file may hold *)

MaxRows == 2

MaxDate == 2

Locations == {"World", "Kenya", "France"}

\* the numeric cells of a row: <<total_cases, total_deaths, new_cases,
\* people_fully_vaccinated, population>>; nothing reported yet, zero
\* denominators, and an ordinary day
Profiles ==
    {<<NaN, NaN, NaN, NaN, NaN>>,
     <<F(0), F(1), F(0), F(1), F(0)>>,
     <<F(4), F(1), F(2), F(1), F(2)>>}

Rows ==
    {Obs(l, d, p[1], p[2], p[3], p[4], p[5]) :
        l \in Locations, d \in 1..MaxDate, p \in Profiles}

RECURSIVE SeqsUpTo(_, _)
\* the sequences over S of length at most n
SeqsUpTo(S, n) ==
    IF n = 0 THEN {<<>>}
    ELSE LET shorter == SeqsUpTo(S, n - 1)
         IN shorter \cup {Append(s, x) : s \in shorter, x \in S}

Datasets == SeqsUpTo(Rows, MaxRows)

Next == Run(Datasets)

Spec == Init /\ [][Next]_vars

----------------------------------------------------------------------------
(* Datasets for the ratio metrics: one World row with every combination of  *)
(* missing, zero and positive cells, and the three-day example              *)

MaxVal == 2

Vals == {NaN} \cup {F(i) : i \in 0..MaxVal}

RatioExample ==
    <<Obs("World", 1, F(0), F(0), F(0), NaN, F(1000)),
      Obs("World", 2, F(100), F(5), F(100), F(10), F(1000)),
      Obs("World", 3, F(200), F(20), F(100), F(20), F(1000))>>

RatioData ==
    {<<>>, RatioExample}
        \cup {<<Obs("World", 1, tc, td, tc, pfv, pop)>> :
                 tc \in Vals, td \in Vals, pfv \in Vals, pop \in Vals}

SpecRatio == Init /\ [][Run(RatioData)]_vars

----------------------------------------------------------------------------
(* Datasets for the snapshot: up to AggRows rows of two countries           *)

AggRows == 3

AggProfiles ==
    {<<NaN, NaN, NaN, NaN, NaN>>,
     <<F(1), F(1), F(1), F(1), F(2)>>,
     <<F(2), F(1), F(1), F(2), F(2)>>}

AggData ==
    SeqsUpTo({Obs(l, d, p[1], p[2], p[3], p[4], p[5]) :
                 l \in {"World", "Kenya"}, d \in 1..MaxDate, p \in AggProfiles},
             AggRows)

SpecAgg == Init /\ [][Run(AggData)]_vars

----------------------------------------------------------------------------
(* Datasets for the moving average: SmoothRows World rows on consecutive    *)
(* dates, in date order or reversed, one of them possibly without           *)
(* new_cases, and a Kenya row between them                                  *)

SmoothRows == 8

SmoothSeries(v, missing) ==
    [i \in 1..SmoothRows |->
        Obs("World", i, F(10), F(1), IF i = missing THEN NaN ELSE F(v[i]), F(1), F(2))]

Reversed(s) == [i \in DOMAIN s |-> s[Len(s) + 1 - i]]

WithKenya(s) ==
    SubSeq(s, 1, 3) \o <<Obs("Kenya", 1, F(10), F(1), F(5), F(1), F(2))>>
        \o SubSeq(s, 4, Len(s))

SmoothData ==
    {<<>>}
        \cup {WithKenya(IF rev THEN Reversed(SmoothSeries(v, m)) ELSE SmoothSeries(v, m)) :
                 v \in [1..SmoothRows -> {0, 1}], m \in 0..SmoothRows, rev \in BOOLEAN}

SpecSmooth == Init /\ [][Run(SmoothData)]_vars

----------------------------------------------------------------------------
(* Properties *)

Columns(t) == UNION {DOMAIN t[i] : i \in DOMAIN t}

LocationsOf(t) == {t[i].location : i \in DOMAIN t}

\* the warning the handler of a map step prints
MapWarning(step) == "Error creating map: " \o step

MapSteps == {"map_cases", "map_vax"}

\* the steps behind each map step
BehindMap(step) ==
    IF step = "map_cases"
    THEN {"map_vax", "insights_world", "insights_highest", "insights_growth", "done"}
    ELSE {"insights_world", "insights_highest", "insights_growth", "done"}

\* latest_data holds the snapshot of the whole dataset (lines 97-98)
FirstSnapshotLive ==
    \/ pc \in {"top10", "derive", "plot_cases", "plot_deaths", "plot_cfr",
               "plot_smooth", "bar_top", "plot_vacc", "plot_vaxrate"}
    \/ pc = "bar_vax" /\ error = "none"

\* latest_data holds the snapshot of the selected rows (lines 224-225)
SecondSnapshotLive ==
    \/ pc \in {"corr", "map_prepare", "map_cases", "map_vax", "insights_world",
               "insights_highest", "insights_growth", "done"}
    \/ pc = "bar_vax" /\ error # "none"

\* C1: when the remote fetch and the local read both fail, the run halts
\* there: no stage behind the Loader starts, and no statement reads the
\* dataset that was never assigned (no NameError).
C1_LoadFailureHalts ==
    (remote = "failed" /\ local = "failed") =>
        (stages = <<"Loader">> /\ error # "NameError")

\* C2: the local file is read only after the remote fetch has failed; when
\* that read succeeds, df is bound to exactly the file's contents, the
\* Loader ends without an error, and no later statement finds df unassigned.
C2_LoaderFallback ==
    /\ local # "untried" => remote = "failed"
    /\ (remote = "failed" /\ local = "ok") =>
          /\ df_bound
          /\ df = local_file
          /\ error # "NameError"
          /\ pc = "explore" => error = "none"

\* C2: a run whose fetch failed and whose local file held rows, past the
\* exploration of those rows
C2_Witness ==
    /\ remote = "failed"
    /\ local = "ok"
    /\ df = local_file
    /\ df # <<>>
    /\ pc = "clean"

\* the ratio the contract asks for: no value when the denominator is zero or
\* missing, otherwise numerator / denominator * 100
ExpectedRatio(num, den) ==
    IF IsNaN(den) \/ den = F(0) THEN NaN ELSE Mul(Div(num, den), F(100))

\* C3: in every row of the selected dataset case_fatality_rate is missing
\* when total_cases is 0 or missing and total_deaths/total_cases*100
\* otherwise, and vaccination_rate is missing when population is 0 or
\* missing and people_fully_vaccinated/population*100 otherwise; neither is
\* ever an infinity.
C3_RatioMetrics ==
    \A i \in DOMAIN filtered_df :
        LET r == filtered_df[i]
        IN "vaccination_rate" \in DOMAIN r =>
              /\ r.case_fatality_rate = ExpectedRatio(r.total_deaths, r.total_cases)
              /\ r.vaccination_rate =
                    ExpectedRatio(r.people_fully_vaccinated, r.population)
              /\ r.case_fatality_rate.k # "inf"
              /\ r.vaccination_rate.k # "inf"

\* C4: with each location's rows ordered by date, the smoothed value of the
\* Nth row is missing for N < 7 and the mean of new_cases over rows N-6..N
\* for N >= 7, whatever the order of the rows in the input.
C4_SmoothedByDate ==
    DOMAIN smooth # {} =>
        \A c \in countries_of_interest :
            LET rows == RowsOf(filtered_df, c)
                by_date == Column(SortByDate(rows), "new_cases")
            IN \A i \in DOMAIN rows :
                  LET N == Cardinality({j \in DOMAIN rows : rows[j].date <= rows[i].date})
                  IN smooth[c][i] =
                        IF N < 7 THEN NaN
                        ELSE Div(SumOver(by_date, N - 6, N), F(7))

\* the snapshot t holds one row per location of src, and each is the
\* observation of src with that location's largest date
IsLatestSnapshot(t, src) ==
    /\ Len(t) = Cardinality(LocationsOf(src))
    /\ LocationsOf(t) = LocationsOf(src)
    /\ \A k \in DOMAIN t :
          \E i \in DOMAIN src :
              /\ src[i] = t[k]
              /\ \A j \in DOMAIN src :
                    src[j].location = t[k].location => src[j].date <= t[k].date

\* C5: each snapshot holds exactly one row per location of its input, and
\* that row is one observation of the input, the one with the location's
\* largest date, every field taken from it.
C5_LatestSnapshot ==
    /\ FirstSnapshotLive => IsLatestSnapshot(latest_data, df)
    /\ SecondSnapshotLive => IsLatestSnapshot(latest_data, filtered_df)

\* the tables with the rows of s in another order
Perms(s) == {[i \in DOMAIN s |-> s[p[i]]] : p \in Permutations(DOMAIN s)}

\* C6: on any reordering of the input rows the top 10 by total_cases and
\* the top 1 by case_fatality_rate and by vaccination_rate are the same
\* locations.
C6_OrderIndependent ==
    \A q \in Perms(df) :
        /\ "latest_data" \in consumed =>
              LocationsOf(top_10_cases) =
                  LocationsOf(HeadRows(Snapshot(q, "total_cases"), 10))
        /\ highest # <<>> =>
              LET again == Snapshot(Derived(Selected(q)), "vaccination_rate")
              IN /\ highest[1].location = Top(again, "case_fatality_rate").location
                 /\ highest[2].location = Top(again, "vaccination_rate").location

\* the place of a stage in Loader, Cleaner, Selector, Metric Deriver,
\* Aggregator, Reporter (the exploration printout is none of the six)
StageRank(stage) ==
    CASE stage = "Loader" -> 1
      [] stage = "Cleaner" -> 2
      [] stage = "Selector" -> 3
      [] stage = "MetricDeriver" -> 4
      [] stage = "Aggregator" -> 5
      [] stage = "Reporter" -> 6
      [] OTHER -> 0

\* every row of t is of a country of interest and carries both ratios
SelectedAndDerived(t) ==
    \A i \in DOMAIN t :
        /\ t[i].location \in countries_of_interest
        /\ {"case_fatality_rate", "vaccination_rate"} \subseteq DOMAIN t[i]

StageOrder ==
    <<"Loader", "Exploration", "Cleaner", "Selector", "Aggregator", "Reporter",
      "MetricDeriver", "Reporter", "MetricDeriver", "Reporter", "Aggregator",
      "Reporter", "Aggregator", "Reporter">>

C8_ReadOnlyAfterConsumed ==
    [][/\ "filtered_df" \in consumed => filtered_df' = filtered_df
       /\ "latest_data" \in consumed => latest_data' = latest_data
       /\ "latest_map_data" \in consumed => latest_map_data' = latest_map_data]_vars

\* t2 is t with the column c added and nothing else changed
AddsOnly(t, t2, c) ==
    /\ DOMAIN t2 = DOMAIN t
    /\ \A i \in DOMAIN t :
          /\ DOMAIN t2[i] = DOMAIN t[i] \cup {c}
          /\ \A x \in DOMAIN t[i] : t2[i][x] = t[i][x]

\* C8, amended: once the reporter has rendered a chart from the selected
\* dataset it is never changed again; the snapshot, once printed, is
\* replaced exactly once, at line 224 by the snapshot of the selected
\* dataset; the map table, once the first map is rendered, only gains the
\* column vax_rate at line 275, its rows and other fields unchanged.
C8_ReadOnlyExceptRebuildAndVaxRate ==
    [][/\ "filtered_df" \in consumed => filtered_df' = filtered_df
       /\ ("latest_data" \in consumed /\ latest_data' # latest_data) =>
             /\ pc = "bar_vax"
             /\ latest_data' = Snapshot(filtered_df, "vaccination_rate")
       /\ ("latest_map_data" \in consumed /\ latest_map_data' # latest_map_data) =>
             /\ pc = "map_vax"
             /\ AddsOnly(latest_map_data, latest_map_data', "vax_rate")]_vars

\* C8: a completed run in which all three tables were consumed, the
\* snapshot was rebuilt and the map table gained vax_rate after its first map
C8_Witness ==
    /\ pc = "done"
    /\ {"filtered_df", "latest_data", "latest_map_data"} \subseteq consumed
    /\ "map_cases" \notin failed
    /\ latest_map_data # <<>>
    /\ "vax_rate" \in DOMAIN latest_map_data[1]
    /\ latest_data # top_countries

\* C9 as stated: a rendering step that fails never ends the run.
C9_RenderFailuresNonFatal ==
    failed # {} => error # "RenderError"

\* C9, amended: only the two choropleth steps are guarded. When one of them
\* fails the failure is caught, its warning is printed and the run goes on
\* with the next step; a failing line chart, bar chart or heatmap is not
\* caught: the run ends at that chart and nothing behind it executes.
C9_OnlyMapFailuresCaught ==
    /\ \A step \in failed \cap MapSteps :
          /\ MapWarning(step) \in Range(out)
          /\ pc \in BehindMap(step)
    /\ error = "RenderError" =>
          /\ pc \in failed \ MapSteps
          /\ "Report completed successfully!" \notin Range(out)
    /\ failed \ MapSteps # {} => error = "RenderError"

\* C9: a run that completed its report although both maps failed
C9_Witness ==
    /\ pc = "done"
    /\ failed = MapSteps
    /\ df # <<>>
    /\ "Report completed successfully!" \in Range(out)

\* C10: once the Loader has bound a dataset, no dataset content ends the run
\* with an error: the only exception that can stop it is a rendering
\* failure; an empty selection or a missing World row is not an error.
C10_CompletesAfterLoad ==
    df_bound => error \in {"none", "RenderError"}

====
